---- MODULE Spec2Model ----
(***************************************************************************)
(* A model of TelegramReporter (src/src/telegram-reporter.ts): a           *)
(* Playwright reporter that renders the result of a test run and posts it  *)
(* to the Telegram sendMessage endpoint.                                   *)
(*                                                                         *)
(* Strings are TLA+ strings, handled with Len, \o and SubSeq as the code   *)
(* handles them with length, + and substring.  An optional value (a field  *)
(* that may be undefined or null) is a sequence of length at most one:     *)
(* << >> when it is absent, << v >> when it is present.                    *)
(***************************************************************************)
EXTENDS Integers, Sequences, FiniteSets, TLC

\* ------------------------------------------------------------- bounds
\* The number of onEnd calls a behaviour makes.
MaxRuns == 2
\* The number of test records of an enumerated suite.
MaxTests == 3
\* How far past the ceiling the enumerated long messages reach.
MaxOver == 2

\* ------------------------------------------------------------- strings
None == << >>
Some(v) == << v >>

\* s.substring(from) (0-based from), s.substring(0, n), s.charAt(i), s.startsWith(p).
Drop(s, n) == SubSeq(s, n + 1, Len(s))
Take(s, n) == SubSeq(s, 1, n)
CharAt(s, i) == SubSeq(s, i + 1, i + 1)
StartsWith(s, p) == Len(p) <= Len(s) /\ Take(s, Len(p)) = p

\* c repeated n times (the enumerated messages are runs of one character).
RECURSIVE Rep(_, _)
Rep(c, n) ==
  IF n = 0 THEN ""
  ELSE LET h == Rep(c, n \div 2)
       IN  h \o h \o (IF n % 2 = 1 THEN c ELSE "")

\* s.toUpperCase(), on the letters the run statuses are made of.
Lower == "abcdefghijklmnopqrstuvwxyz"
Upper == "ABCDEFGHIJKLMNOPQRSTUVWXYZ"
UpperChar(c) ==
  IF \E i \in 1..26 : SubSeq(Lower, i, i) = c
  THEN LET i == CHOOSE i \in 1..26 : SubSeq(Lower, i, i) = c IN SubSeq(Upper, i, i)
  ELSE c
RECURSIVE toUpperCase(_)
toUpperCase(s) ==
  IF s = "" THEN "" ELSE UpperChar(Take(s, 1)) \o toUpperCase(Drop(s, 1))

\* s.indexOf(token, pos): the first index at or after pos where token occurs
\* in s, or -1.
RECURSIVE indexOfFrom(_, _, _)
indexOfFrom(s, token, pos) ==
  IF pos + Len(token) > Len(s) THEN -1
  ELSE IF SubSeq(s, pos + 1, pos + Len(token)) = token THEN pos
  ELSE indexOfFrom(s, token, pos + 1)

\* s.split(sep) for a non-empty separator: the pieces between the
\* separators, an empty string giving one empty piece.
RECURSIVE splitFrom(_, _, _)
splitFrom(s, sep, pos) ==
  LET k == indexOfFrom(s, sep, pos)
  IN  IF k = -1 THEN << Drop(s, pos) >>
      ELSE << SubSeq(s, pos + 1, k) >> \o splitFrom(s, sep, k + Len(sep))
split(s, sep) == splitFrom(s, sep, 0)

\* parts.join(sep)
RECURSIVE join(_, _)
join(parts, sep) ==
  IF parts = << >> THEN ""
  ELSE IF Len(parts) = 1 THEN parts[1]
  ELSE parts[1] \o sep \o join(Tail(parts), sep)

\* array.slice(0, n) for n >= 0, and array.slice(0, -1).
slice0(arr, n) == SubSeq(arr, 1, IF n < Len(arr) THEN n ELSE Len(arr))
dropLast(arr) == SubSeq(arr, 1, Len(arr) - 1)

\* array.filter(pred), pred given as the set of values that are kept out.
RECURSIVE filterOut(_, _)
filterOut(arr, out) ==
  IF arr = << >> THEN << >>
  ELSE (IF arr[1] \in out THEN << >> ELSE << arr[1] >>) \o filterOut(Tail(arr), out)

\* (ms / 1000).toFixed(2) for an integer ms >= 0: the hundredths nearest to
\* the double nearest to ms / 1000.  When ms ends in 5 the quotient lies
\* midway between two hundredths and the double decides: with
\* 125 * 2^L <= ms < 125 * 2^(L+1), the double is m * 2^(L-55) for the 53-bit
\* integer m nearest to ms * 2^(52-L) / 125, so it lies above the quotient
\* when the remainder of ms * 2^(52-L) by 125 is at least 63, below it when
\* the remainder is from 1 to 62, and on it when the remainder is 0, where
\* toFixed takes the larger hundredth.
RECURSIVE pow2mod125(_)
pow2mod125(k) == IF k = 0 THEN 1 ELSE (2 * pow2mod125(k - 1)) % 125
RECURSIVE binaryExponent(_)
binaryExponent(ms) ==
  IF ms >= 250 THEN 1 + binaryExponent(ms \div 2)
  ELSE IF ms >= 125 THEN 0
  ELSE binaryExponent(2 * ms) - 1
tieRoundsUp(ms) ==
  LET r == ((ms % 125) * pow2mod125(52 - binaryExponent(ms))) % 125
  IN  r = 0 \/ r >= 63
Pad2(n) == IF n < 10 THEN "0" \o ToString(n) ELSE ToString(n)
toFixed2(ms) ==
  LET up == IF ms % 10 = 5 THEN tieRoundsUp(ms) ELSE ms % 10 > 5
      h == (ms \div 10) + (IF up THEN 1 ELSE 0)
  IN  ToString(h \div 100) \o "." \o Pad2(h % 100)

\* str.replace(/token/g, value): every occurrence of the literal token, left
\* to right and without overlap, replaced by the expansion of value, in
\* which $$ is a dollar sign, $& the match and $' the text after the match;
\* any other use of $ stands for itself (the patterns have no capture
\* groups).  The pattern for the text before the match is a dollar sign and
\* a grave accent, a character no TLA+ string holds: no value of the model
\* contains it, and expandReplacement takes before for the sake of the
\* correspondence only.
RECURSIVE expandReplacement(_, _, _, _)
expandReplacement(value, matched, before, after) ==
  IF value = "" THEN ""
  ELSE IF Take(value, 1) = "$" /\ Len(value) >= 2
  THEN LET c == CharAt(value, 1)
           rest == Drop(value, 2)
       IN  IF c = "$" THEN "$" \o expandReplacement(rest, matched, before, after)
           ELSE IF c = "&" THEN matched \o expandReplacement(rest, matched, before, after)
           ELSE IF c = "'" THEN after \o expandReplacement(rest, matched, before, after)
           ELSE "$" \o expandReplacement(Drop(value, 1), matched, before, after)
  ELSE Take(value, 1) \o expandReplacement(Drop(value, 1), matched, before, after)
RECURSIVE replaceFrom(_, _, _, _)
replaceFrom(s, pos, token, value) ==
  LET k == indexOfFrom(s, token, pos)
  IN  IF k = -1 THEN Drop(s, pos)
      ELSE SubSeq(s, pos + 1, k)
             \o expandReplacement(value, token, Take(s, k), Drop(s, k + Len(token)))
             \o replaceFrom(s, k + Len(token), token, value)
replaceAll(s, token, value) == replaceFrom(s, 0, token, value)

\* ------------------------------------------------------------- glyphs
\* The source's pictographs as the file holds them: each is a run of two to
\* four UTF-16 code units, the units message.length counts.  Every code
\* unit is written here as one ASCII character, the same unit as the same
\* character: U+00E2 ^, U+0153 %, U+2026 _, U+0152 !, U+00F0 #, U+0178 ?,
\* U+201C =, U+0160 |, U+20AC +, U+00A2 *, U+00BA >, U+00B1 @, U+00EF ;,
\* U+00B8 ",", U+00AD -.
CheckMark == "^%_"
CrossMark == "^!"
ChartMark == "#?=|"
Bullet == "^+*"
Chevron == "^+>"
Stopwatch == "^@;,"
SkipMark == "^-;,"
NL == "\n"

\* ------------------------------------------------------------- values
\* The outcome of a call: a returned string or a thrown exception, with the
\* reporter methods and configured callbacks the call went through.
Returned(v, calls) == [threw |-> FALSE, v |-> v, calls |-> calls]
Thrown(calls) == [threw |-> TRUE, v |-> "", calls |-> calls]

\* !x for an optional string: undefined, null and "" are falsy.
Falsy(x) == x = None \/ x[1] = ""
\* x || d
OrDefault(x, d) == IF Falsy(x) THEN d ELSE x[1]

defaultTestFormat == "{GROUP} " \o Chevron \o " {TEST} ({TIME})"

\* The constructor, lines 23-39: the options with their defaults, and the
\* error thrown when a credential is falsy.
resolveOptions(o) ==
  [ botToken        |-> o.botToken,
    chatId          |-> o.chatId,
    reportType      |-> OrDefault(o.reportType, "summary"),
    customFormatter |-> o.customFormatter,
    sendOn          |-> OrDefault(o.sendOn, "always"),
    testFormat      |-> OrDefault(o.testFormat, defaultTestFormat),
    title           |-> o.title ]
ctorThrows(o) == Falsy(resolveOptions(o).botToken) \/ Falsy(resolveOptions(o).chatId)

\* shouldSend with the failure policy sending for failed runs only.
shouldSendFailedOnly(status, sendOn) ==
  IF sendOn = "always" THEN TRUE
  ELSE IF sendOn = "failure" THEN status = "failed"
  ELSE IF sendOn = "success" THEN status = "passed"
  ELSE TRUE

\* shouldSend, lines 61-77.
shouldSend(status, sendOn) ==
  IF sendOn = "always" THEN TRUE
  ELSE IF sendOn = "failure" THEN status # "passed"
  ELSE IF sendOn = "success" THEN status = "passed"
  ELSE TRUE

\* A configured title is a string or a function of the passed flag; a
\* function returns onPassed or onOther, or throws.
TitleString(text) == [kind |-> "string", onPassed |-> text, onOther |-> text, throws |-> FALSE]
TitleFunction(a, b) == [kind |-> "function", onPassed |-> a, onOther |-> b, throws |-> FALSE]
TitleThrowing == [kind |-> "function", onPassed |-> "", onOther |-> "", throws |-> TRUE]

\* getTitle, lines 103-113.
getTitle(options, passed) ==
  LET title == options.title
      truthy == title # None /\ (title[1].kind = "function" \/ title[1].onPassed # "")
  IN  IF truthy
      THEN IF title[1].kind = "function"
           THEN IF title[1].throws
                THEN Thrown({"getTitle", "title"})
                ELSE Returned(IF passed THEN title[1].onPassed ELSE title[1].onOther,
                              {"getTitle", "title"})
           ELSE Returned(title[1].onPassed, {"getTitle"})
      ELSE Returned((IF passed THEN CheckMark ELSE CrossMark) \o " Playwright Test Results",
                    {"getTitle"})

\* A test record: titlePath is test.titlePath(), project the optional
\* test.parent.project()?.name, file test.location.file, results the
\* attempts, each with a status, an optional duration in milliseconds and an
\* optional error whose message is optional too.
Attempt(status, duration, error) == [status |-> status, duration |-> duration, error |-> error]
Test(titlePath, project, file, results) ==
  [titlePath |-> titlePath, project |-> project, file |-> file, results |-> results]

\* test.results[0]?.status, test.results[0]?.duration, test.results[0]?.error
firstStatus(test) == IF test.results = << >> THEN None ELSE Some(test.results[1].status)
firstDuration(test) == IF test.results = << >> THEN None ELSE test.results[1].duration
firstError(test) == IF test.results = << >> THEN None ELSE test.results[1].error

\* formatTest, lines 118-140.
formatTest(options, test, duration) ==
  LET titlePath == test.titlePath
      browser == OrDefault(test.project, "")
      fileParts == split(test.file, "/")
      filename == fileParts[Len(fileParts)]
      testName == IF titlePath = << >> THEN "" ELSE titlePath[Len(titlePath)]
      suites == filterOut(dropLast(titlePath), {browser, filename})
      group == join(suites, " " \o Chevron \o " ")
  IN  replaceAll(
        replaceAll(
          replaceAll(
            replaceAll(
              replaceAll(options.testFormat, "{BROWSER}", browser),
              "{FILENAME}", filename),
            "{GROUP}", group),
          "{TEST}", testName),
        "{TIME}", duration)

\* generateSimpleReport, lines 142-145.
generateSimpleReport(options, status) ==
  LET t == getTitle(options, status = "passed")
      calls == {"generateSimpleReport"} \cup t.calls
  IN  IF t.threw THEN Thrown(calls)
      ELSE Returned(t.v \o NL \o NL \o "Status: " \o toUpperCase(status), calls)

\* The count taken from the last attempt of each test.
RECURSIVE countStatusLast(_, _)
countStatusLast(allTests, status) ==
  IF allTests = << >> THEN 0
  ELSE (IF allTests[1].results # << >>
           /\ allTests[1].results[Len(allTests[1].results)].status = status
        THEN 1 ELSE 0)
         + countStatusLast(Tail(allTests), status)

\* allTests.filter((test) => test.results[0]?.status === status).length
RECURSIVE countStatus(_, _)
countStatus(allTests, status) ==
  IF allTests = << >> THEN 0
  ELSE (IF firstStatus(allTests[1]) = Some(status) THEN 1 ELSE 0)
         + countStatus(Tail(allTests), status)

\* generateSummaryReport, lines 147-177.
generateSummaryReport(options, status, allTests, startTime, now) ==
  LET duration == now - startTime
      durationSec == toFixed2(duration)
      t == getTitle(options, status = "passed")
      passed == countStatus(allTests, "passed")
      failed == countStatus(allTests, "failed")
      skipped == countStatus(allTests, "skipped")
      timedOut == countStatus(allTests, "timedOut")
      calls == {"generateSummaryReport"} \cup t.calls
  IN  IF t.threw THEN Thrown(calls)
      ELSE Returned(
             t.v \o NL
             \o NL
             \o "Status: " \o toUpperCase(status) \o NL
             \o "Duration: " \o durationSec \o "s" \o NL
             \o NL
             \o ChartMark \o " Summary:" \o NL
             \o Bullet \o " Total: " \o ToString(Len(allTests)) \o NL
             \o Bullet \o " Passed: " \o ToString(passed) \o NL
             \o Bullet \o " Failed: " \o ToString(failed) \o NL
             \o Bullet \o " Skipped: " \o ToString(skipped) \o NL
             \o (IF timedOut > 0 THEN Bullet \o " Timed Out: " \o ToString(timedOut) ELSE ""),
             calls)

\* The status buckets of generateDetailedReport, lines 185-197: the tests
\* whose first attempt has the status, in input order.
RECURSIVE bucket(_, _)
bucket(allTests, status) ==
  IF allTests = << >> THEN << >>
  ELSE (IF firstStatus(allTests[1]) = Some(status) THEN << allTests[1] >> ELSE << >>)
         \o bucket(Tail(allTests), status)

\* formatTestLine, lines 212-217: a duration that is absent or 0 is falsy.
formatTestLine(options, test) ==
  LET d == firstDuration(test)
      duration == IF d # None /\ d[1] # 0 THEN toFixed2(d[1]) \o "s" ELSE "N/A"
  IN  formatTest(options, test, duration)

\* The error text of a failed entry, lines 224-230.
errorText(test) ==
  LET error == firstError(test)
  IN  IF error = None THEN ""
      ELSE LET errorLines == IF error[1].message # None /\ error[1].message[1] # ""
                             THEN slice0(split(error[1].message[1], NL), 3)
                             ELSE << "Unknown error" >>
           IN  "    Error: " \o join(errorLines, NL \o "           ") \o NL

\* The entries of the failed section, lines 222-231.
RECURSIVE failedEntries(_, _)
failedEntries(options, tests) ==
  IF tests = << >> THEN ""
  ELSE NL \o "  " \o Bullet \o " " \o formatTestLine(options, tests[1]) \o NL
         \o errorText(tests[1])
         \o failedEntries(options, Tail(tests))

\* The entries of the timed-out and passed sections, lines 238-240, 256-258.
RECURSIVE timedEntries(_, _)
timedEntries(options, tests) ==
  IF tests = << >> THEN ""
  ELSE "  " \o Bullet \o " " \o formatTestLine(options, tests[1]) \o NL
         \o timedEntries(options, Tail(tests))

\* The entries of the skipped section, lines 247-249.
RECURSIVE skippedEntries(_, _)
skippedEntries(options, tests) ==
  IF tests = << >> THEN ""
  ELSE "  " \o Bullet \o " " \o formatTest(options, tests[1], "N/A") \o NL
         \o skippedEntries(options, Tail(tests))

\* The skipped section written whether or not a test was skipped.
skippedSectionAlways(options, skipped) ==
  SkipMark \o " SKIPPED (" \o ToString(Len(skipped)) \o "):" \o NL
    \o skippedEntries(options, skipped) \o NL

\* The sections of generateDetailedReport, lines 219-259.
failedSection(options, failed) ==
  IF Len(failed) > 0
  THEN CrossMark \o " FAILED (" \o ToString(Len(failed)) \o "):" \o NL
         \o failedEntries(options, failed) \o NL
  ELSE ""
timedOutSection(options, timedOut) ==
  IF Len(timedOut) > 0
  THEN Stopwatch \o " TIMED OUT (" \o ToString(Len(timedOut)) \o "):" \o NL
         \o timedEntries(options, timedOut) \o NL
  ELSE ""
skippedSection(options, skipped) ==
  IF Len(skipped) > 0
  THEN SkipMark \o " SKIPPED (" \o ToString(Len(skipped)) \o "):" \o NL
         \o skippedEntries(options, skipped) \o NL
  ELSE ""
passedSection(options, passed) ==
  IF Len(passed) > 0
  THEN CheckMark \o " PASSED (" \o ToString(Len(passed)) \o "):" \o NL
         \o timedEntries(options, passed)
  ELSE ""

\* generateDetailedReport, lines 179-262.
generateDetailedReport(options, status, allTests, startTime, now) ==
  LET duration == now - startTime
      durationSec == toFixed2(duration)
      passed == bucket(allTests, "passed")
      failed == bucket(allTests, "failed")
      skipped == bucket(allTests, "skipped")
      timedOut == bucket(allTests, "timedOut")
      t == getTitle(options, status = "passed")
      calls == {"generateDetailedReport"} \cup t.calls
  IN  IF t.threw THEN Thrown(calls)
      ELSE Returned(
             t.v \o NL \o NL
             \o "Status: " \o toUpperCase(status) \o NL
             \o "Duration: " \o durationSec \o "s" \o NL \o NL
             \o ChartMark \o " Summary:" \o NL
             \o Bullet \o " Total: " \o ToString(Len(allTests)) \o NL
             \o Bullet \o " Passed: " \o ToString(Len(passed)) \o NL
             \o Bullet \o " Failed: " \o ToString(Len(failed)) \o NL
             \o Bullet \o " Skipped: " \o ToString(Len(skipped)) \o NL
             \o (IF Len(timedOut) > 0
                 THEN Bullet \o " Timed Out: " \o ToString(Len(timedOut)) \o NL
                 ELSE "")
             \o NL
             \o failedSection(options, failed)
             \o timedOutSection(options, timedOut)
             \o skippedSection(options, skipped)
             \o passedSection(options, passed),
             calls \cup (IF Len(failed) + Len(timedOut) + Len(skipped) + Len(passed) > 0
                         THEN {"formatTest"} ELSE {}))

\* What a call of the configured customFormatter does: it returns a string
\* or throws.
FormatterReturns(text) == [throws |-> FALSE, text |-> text]
FormatterThrows == [throws |-> TRUE, text |-> ""]

\* generateReport putting the resolved title above the custom formatter's text.
generateReportTitled(options, status, allTests, startTime, now, custom) ==
  IF options.customFormatter # None
  THEN IF custom.throws
       THEN Thrown({"generateReport", "customFormatter"})
       ELSE LET t == getTitle(options, status = "passed")
            IN  IF t.threw THEN Thrown({"generateReport", "customFormatter"} \cup t.calls)
                ELSE Returned(t.v \o NL \o NL \o custom.text,
                              {"generateReport", "customFormatter"} \cup t.calls)
  ELSE generateSummaryReport(options, status, allTests, startTime, now)

\* generateReport, lines 79-98.  custom is the behaviour of the configured
\* formatter in this call, read only when one is configured.
generateReport(options, status, allTests, startTime, now, custom) ==
  IF options.customFormatter # None
  THEN IF custom.throws
       THEN Thrown({"generateReport", "customFormatter"})
       ELSE Returned(custom.text, {"generateReport", "customFormatter"})
  ELSE LET r == IF options.reportType = "simple"
                THEN generateSimpleReport(options, status)
                ELSE IF options.reportType = "summary"
                THEN generateSummaryReport(options, status, allTests, startTime, now)
                ELSE IF options.reportType = "detailed"
                THEN generateDetailedReport(options, status, allTests, startTime, now)
                ELSE generateSummaryReport(options, status, allTests, startTime, now)
       IN  [r EXCEPT !.calls = @ \cup {"generateReport"}]

\* The clamp cutting at the ceiling, with no room left for the marker.
textToSendNoHeadroom(message) ==
  IF Len(message) > 4096
  THEN SubSeq(message, 1, 4096) \o "..." \o NL \o NL \o "[Message truncated]"
  ELSE message
\* The clamp appending the dots alone.
textToSendDotsOnly(message) ==
  IF Len(message) > 4096
  THEN SubSeq(message, 1, 4096 - 50) \o "..."
  ELSE message

\* sendTelegramMessage, lines 266-274: the URL and the clamped text.
maxLength == 4096
truncationMarker == "..." \o NL \o NL \o "[Message truncated]"
textToSend(message) ==
  IF Len(message) > maxLength
  THEN SubSeq(message, 1, maxLength - 50) \o truncationMarker
  ELSE message
requestUrl(options) == "https://api.telegram.org/bot" \o options.botToken[1] \o "/sendMessage"

\* The request of lines 277-287.
request(options, message) ==
  [ url     |-> requestUrl(options),
    method  |-> "POST",
    headers |-> [ContentType |-> "application/json"],
    body    |-> [chat_id |-> options.chatId[1],
                 text |-> textToSend(message),
                 parse_mode |-> "HTML"] ]

\* ------------------------------------------------------------- state
VARIABLES
  reporter,   \* "none" before construction, then "constructed" or "threw"
  options,    \* this.options: None before construction
  suite,      \* this.suite: None (null) or Some(the suite's allTests())
  startTime,  \* this.startTime
  pc,         \* the pending onEnd call: "idle", "fetch" (awaiting fetch) or "text" (awaiting response.text())
  response,   \* the response the pending call reads the body of
  promise,    \* the promise of the latest onEnd call: "none", "pending", "resolved", "rejected"
  runs,       \* the number of onEnd calls made
  call,       \* the latest onEnd call: its result status, the clock and the formatter behaviour it met
  calls,      \* the methods and callbacks the latest onEnd call went through
  message,    \* the report the latest onEnd call generated
  sent,       \* the HTTP requests the latest onEnd call issued
  logged,     \* the console.error lines of the latest onEnd call
  settled     \* how the delivery attempt of the latest onEnd call ended: "none" while there is none or it is pending

vars == << reporter, options, suite, startTime, pc, response, promise,
           runs, call, calls, message, sent, logged, settled >>

\* The formatter behaviour recorded for a call that did not reach the formatter.
NotConsulted == [throws |-> FALSE, text |-> ""]
NoCall == [status |-> "", now |-> 0, custom |-> NotConsulted]
NoResponse == [ok |-> TRUE, status |-> 0]

Init ==
  /\ reporter = "none"
  /\ options = None
  /\ suite = None
  /\ startTime = 0
  /\ pc = "idle"
  /\ response = NoResponse
  /\ promise = "none"
  /\ runs = 0
  /\ call = NoCall
  /\ calls = {}
  /\ message = None
  /\ sent = << >>
  /\ logged = << >>
  /\ settled = "none"

\* new TelegramReporter(o), lines 23-39: this.options is assigned, then the
\* credentials are checked.
constructor(o) ==
  /\ reporter = "none"
  /\ options' = Some(resolveOptions(o))
  /\ reporter' = IF ctorThrows(o) THEN "threw" ELSE "constructed"
  /\ UNCHANGED << suite, startTime, pc, response, promise, runs, call, calls,
                  message, sent, logged, settled >>

\* onBegin(_config, s) at clock t, lines 41-44.  The runner calls it when no
\* onEnd call is pending; the record of the latest onEnd call describes the
\* calls since the latest onBegin, and starts afresh here.
onBegin(s, t) ==
  /\ reporter = "constructed"
  /\ pc = "idle"
  /\ suite' = Some(s)
  /\ startTime' = t
  /\ promise' = "none" /\ call' = NoCall /\ calls' = {} /\ message' = None
  /\ sent' = << >> /\ logged' = << >> /\ settled' = "none" /\ response' = NoResponse
  /\ UNCHANGED << reporter, options, pc, runs >>

\* onEnd without a suite returning with no diagnostic.
endWithoutSuiteSilent ==
  /\ logged' = << >>
  /\ calls' = {"onEnd"}
  /\ message' = None /\ sent' = << >>
  /\ pc' = "idle" /\ promise' = "resolved"

\* onEnd without a suite, lines 47-50: one diagnostic, and the call returns.
endWithoutSuite ==
  /\ logged' = << "TelegramReporter: Suite data not available" >>
  /\ calls' = {"onEnd"}
  /\ message' = None /\ sent' = << >>
  /\ pc' = "idle" /\ promise' = "resolved"

\* onEnd when shouldSend answers false, lines 53-55.
endWithoutSending ==
  /\ logged' = << >>
  /\ calls' = {"onEnd", "shouldSend"}
  /\ message' = None /\ sent' = << >>
  /\ pc' = "idle" /\ promise' = "resolved"

\* onEnd past the gate, lines 57-58 and 264-287: the report is generated and
\* posted, and the call awaits fetch; an exception of generateReport leaves
\* the async handler as a rejection.
endBySending(status, now, custom) ==
  LET r == generateReport(options[1], status, suite[1], startTime, now, custom)
  IN  /\ logged' = << >>
      /\ IF r.threw
         THEN /\ calls' = {"onEnd", "shouldSend"} \cup r.calls
              /\ message' = None /\ sent' = << >>
              /\ pc' = "idle" /\ promise' = "rejected"
         ELSE /\ calls' = {"onEnd", "shouldSend", "sendTelegramMessage", "fetch"}
                            \cup r.calls
              /\ message' = Some(r.v)
              /\ sent' = << request(options[1], r.v) >>
              /\ pc' = "fetch" /\ promise' = "pending"

\* onEnd(result), lines 46-59, up to its first await or its return: status
\* is result.status, now the value of Date.now(), custom the behaviour of
\* the configured formatter.  The runner awaits the handler, so a call
\* starts when none is pending.  The call record keeps the clock and the
\* formatter behaviour only when the call read them.
onEnd(status, now, custom) ==
  LET gate == suite # None /\ shouldSend(status, options[1].sendOn)
      consulted == gate /\ options[1].customFormatter # None
  IN
  /\ reporter = "constructed"
  /\ pc = "idle"
  /\ runs < MaxRuns
  /\ runs' = runs + 1
  /\ call' = [status |-> status, now |-> IF gate THEN now ELSE 0,
              custom |-> IF consulted THEN custom ELSE NotConsulted]
  /\ response' = NoResponse
  /\ settled' = "none"
  /\ IF suite = None THEN endWithoutSuite
     ELSE IF ~shouldSend(status, options[1].sendOn) THEN endWithoutSending
     ELSE endBySending(status, now, custom)
  /\ UNCHANGED << reporter, options, suite, startTime >>

\* fetch resolves with a response, lines 277-295: a 2xx response ends the
\* call, any other one has its body read.
fetchResolves(resp) ==
  /\ pc = "fetch"
  /\ IF resp.ok
     THEN /\ pc' = "idle" /\ promise' = "resolved" /\ settled' = "ok"
          /\ UNCHANGED << response, calls >>
     ELSE /\ pc' = "text" /\ response' = resp
          /\ calls' = calls \cup {"response.text"}
          /\ UNCHANGED << promise, settled >>
  /\ UNCHANGED << reporter, options, suite, startTime, runs, call,
                  message, sent, logged >>

\* fetch rejects or throws with error err, lines 296-301.
fetchRejects(err) ==
  /\ pc = "fetch"
  /\ logged' = Append(logged, "TelegramReporter: Error sending message to Telegram: " \o err)
  /\ pc' = "idle" /\ promise' = "resolved" /\ settled' = "fetch rejected"
  /\ UNCHANGED << reporter, options, suite, startTime, response, runs,
                  call, calls, message, sent >>

\* response.text() resolves with the body, lines 290-294.
textResolves(body) ==
  /\ pc = "text"
  /\ logged' = logged \o
       << "TelegramReporter: Failed to send message. Status: " \o ToString(response.status),
          "TelegramReporter: Error: " \o body >>
  /\ pc' = "idle" /\ promise' = "resolved" /\ settled' = "not ok"
  /\ UNCHANGED << reporter, options, suite, startTime, response, runs,
                  call, calls, message, sent >>

\* response.text() read outside the try block: its rejection leaves onEnd.
textRejectsUncaught(err) ==
  /\ pc = "text"
  /\ pc' = "idle" /\ promise' = "rejected" /\ settled' = "text rejected"
  /\ UNCHANGED << reporter, options, suite, startTime, response, runs,
                  call, calls, message, sent, logged >>

\* response.text() rejects with error err: the catch of lines 296-301.
textRejects(err) ==
  /\ pc = "text"
  /\ logged' = Append(logged, "TelegramReporter: Error sending message to Telegram: " \o err)
  /\ pc' = "idle" /\ promise' = "resolved" /\ settled' = "text rejected"
  /\ UNCHANGED << reporter, options, suite, startTime, response, runs,
                  call, calls, message, sent >>

\* ------------------------------------------------------------- inputs
\* FullResult.status
RunStatuses == {"passed", "failed", "timedout", "interrupted"}

\* The test records of the enumerated suites, by kind; the i-th record of a
\* suite is the i-th test of login.spec.ts, run by the chromium project.
TestKinds == {"passed", "failed", "skipped", "timedOut", "interrupted", "not run"}
fiveLineError == "expected true" \o NL \o "received false" \o NL \o "at login.spec.ts:7"
                   \o NL \o "at step" \o NL \o "at run"
resultsOfKind(kind) ==
  IF kind = "passed" THEN << Attempt("passed", Some(1234), None) >>
  ELSE IF kind = "failed"
  THEN << Attempt("failed", Some(2500), Some([message |-> Some(fiveLineError)])),
          Attempt("passed", Some(800), None) >>
  ELSE IF kind = "skipped" THEN << Attempt("skipped", Some(0), None) >>
  ELSE IF kind = "timedOut" THEN << Attempt("timedOut", Some(30000), None) >>
  ELSE IF kind = "interrupted" THEN << Attempt("interrupted", Some(40), None) >>
  ELSE << >>
testOfKind(kind, i) ==
  Test(<< "chromium", "login.spec.ts", "Auth", "case " \o ToString(i) >>,
       Some("chromium"), "/repo/tests/login.spec.ts", resultsOfKind(kind))
\* The suites of at most n records.
SuitesUpTo(n) ==
  UNION { { [i \in 1..k |-> testOfKind(kinds[i], i)] : kinds \in [1..k -> TestKinds] }
          : k \in 0..n }

\* The clock at onBegin, and the clock at onEnd for each elapsed time.
BeginTimes == {1000}
EndTimes(elapsed) == { t + e : t \in BeginTimes, e \in elapsed }

\* The responses of the endpoint, the error of a failed transport, the body
\* of an error response.
Responses == { [ok |-> TRUE, status |-> 200],
               [ok |-> FALSE, status |-> 403],
               [ok |-> FALSE, status |-> 500] }
TransportErrors == {"TypeError: fetch failed"}
ErrorBodies == {"Forbidden: bot was blocked by the user"}

\* Every combination of the credentials, the report type, the send policy,
\* the custom formatter and the title.
LifecycleOptions ==
  [ botToken        : {None, Some(""), Some("123:ABC")},
    chatId          : {None, Some(""), Some("-1001")},
    reportType      : {None, Some("simple"), Some("summary"), Some("detailed"), Some("verbose")},
    sendOn          : {None, Some("always"), Some("failure"), Some("success"), Some("never")},
    customFormatter : {None, Some("formatter")},
    title           : {None, Some(TitleString("")), Some(TitleString("Nightly run")),
                       Some(TitleFunction("All green", "Broken")), Some(TitleThrowing)},
    testFormat      : {None} ]
LifecycleSuites == { << >>, << testOfKind("failed", 1), testOfKind("passed", 2) >> }
LifecycleEndTimes == EndTimes({1234})
\* What the configured formatter does in a call.
LifecycleFormatters ==
  { FormatterReturns("<b>custom</b> report"),
    FormatterReturns(Rep("0123456789", (maxLength \div 10) + 90)),
    FormatterThrows }

\* The messages of the clamp: custom formatter texts of the lengths around
\* the ceiling, the first n characters of the digits repeated.
DigitsText(n) == Take(Rep("0123456789", (n \div 10) + 1), n)
ClampLengths ==
  {0, 1, maxLength - 51, maxLength - 50, maxLength - 1, maxLength, maxLength + 904}
    \cup { maxLength + k : k \in 1..MaxOver }
ClampFormatters == { FormatterReturns(DigitsText(n)) : n \in ClampLengths }
\* The titles of the clamp: none, and the runs of one letter that bring the
\* summary report of an empty suite (its title aside, ClampFrame code
\* units, pictographs included) to the ceiling and one past it.
ClampFrame ==
  Len(generateSummaryReport(
        [title |-> Some(TitleString("t"))], "passed", << >>, 1000, 2234).v) - 1
ClampTitles ==
  {None} \cup { Some(TitleString(Rep("t", maxLength - ClampFrame + k))) : k \in 0..1 }
ClampOptions ==
  [ botToken        : {Some("123:ABC")},
    chatId          : {Some("-1001")},
    reportType      : {None, Some("detailed")},
    sendOn          : {None},
    customFormatter : {None, Some("formatter")},
    title           : ClampTitles,
    testFormat      : {None} ]

\* The options of the built-in reports of one type, for the suites of at
\* most MaxTests records.
FormatOptions(reportType) ==
  [ botToken        : {Some("123:ABC")},
    chatId          : {Some("-1001")},
    reportType      : {Some(reportType)},
    sendOn          : {None},
    customFormatter : {None},
    title           : {None},
    testFormat      : {None} ]
FormatSuites == SuitesUpTo(MaxTests)
FormatStatuses == {"failed"}
FormatResponses == { [ok |-> TRUE, status |-> 200], [ok |-> FALSE, status |-> 403] }

\* The templates of the per-test line: the built-in one, one token alone,
\* every token with one of them twice, and one with a name that is no token.
TemplateFormats ==
  { None,
    Some("{TEST}"),
    Some("[{BROWSER}] {FILENAME} {GROUP}: {TEST} {TIME} {TEST}"),
    Some("{NAME}: {TEST} {TIME}") }
TemplateOptions ==
  [ botToken        : {Some("123:ABC")},
    chatId          : {Some("-1001")},
    reportType      : {Some("detailed")},
    sendOn          : {None},
    customFormatter : {None},
    title           : {None},
    testFormat      : TemplateFormats ]
\* One passed record of 1234 ms per suite: under one describe block, under
\* two, under none, run without a project, titled with a dollar sign in
\* quotes, titled with the name of a token, and under a describe block that
\* is titled like the project.
passedAttempt == << Attempt("passed", Some(1234), None) >>
TemplateTests ==
  { Test(<< "chromium", "login.spec.ts", "Auth", "logs in" >>,
         Some("chromium"), "/repo/tests/login.spec.ts", passedAttempt),
    Test(<< "chromium", "login.spec.ts", "Auth", "Admin", "logs in" >>,
         Some("chromium"), "/repo/tests/login.spec.ts", passedAttempt),
    Test(<< "chromium", "login.spec.ts", "logs in" >>,
         Some("chromium"), "/repo/tests/login.spec.ts", passedAttempt),
    Test(<< "", "login.spec.ts", "Auth", "logs in" >>,
         None, "/repo/tests/login.spec.ts", passedAttempt),
    Test(<< "chromium", "login.spec.ts", "Auth", "takes '$' too" >>,
         Some("chromium"), "/repo/tests/login.spec.ts", passedAttempt),
    Test(<< "chromium", "login.spec.ts", "Auth", "shows {TIME}" >>,
         Some("chromium"), "/repo/tests/login.spec.ts", passedAttempt),
    Test(<< "chromium", "login.spec.ts", "chromium", "logs in" >>,
         Some("chromium"), "/repo/tests/login.spec.ts", passedAttempt) }
TemplateSuites == { << t >> : t \in TemplateTests }

\* One record per suite for each outcome that has a section and each
\* duration of its first attempt: none, zero, values that round down and up,
\* and values midway between two hundredths of a second.
TimeKinds == {"failed", "timedOut", "skipped", "passed"}
TimeDurations ==
  { None, Some(0), Some(4), Some(5), Some(15), Some(996), Some(1005), Some(1234),
    Some(8125), Some(59999) }
TimeTests ==
  { Test(<< "chromium", "login.spec.ts", "Auth", "case 1" >>,
         Some("chromium"), "/repo/tests/login.spec.ts", << Attempt(kind, d, None) >>)
      : kind \in TimeKinds, d \in TimeDurations }
TimeSuites == { << t >> : t \in TimeTests }

\* ------------------------------------------------------------- specification
\* The reporter under every combination of options.
Next ==
  \/ reporter = "none" /\ \E o \in LifecycleOptions : constructor(o)
  \/ \E s \in LifecycleSuites, t \in BeginTimes : onBegin(s, t)
  \/ \E status \in RunStatuses, now \in LifecycleEndTimes, custom \in LifecycleFormatters :
       onEnd(status, now, custom)
  \/ \E resp \in Responses : fetchResolves(resp)
  \/ \E err \in TransportErrors : fetchRejects(err)
  \/ \E body \in ErrorBodies : textResolves(body)
  \/ \E err \in TransportErrors : textRejects(err)

Spec == Init /\ [][Next]_vars

\* The reporter with formatter texts of the lengths around the ceiling.
NextClamp ==
  \/ reporter = "none" /\ \E o \in ClampOptions : constructor(o)
  \/ \E s \in LifecycleSuites, t \in BeginTimes : onBegin(s, t)
  \/ \E status \in RunStatuses, now \in LifecycleEndTimes, custom \in ClampFormatters :
       onEnd(status, now, custom)
  \/ \E resp \in Responses : fetchResolves(resp)
  \/ \E err \in TransportErrors : fetchRejects(err)
  \/ \E body \in ErrorBodies : textResolves(body)
  \/ \E err \in TransportErrors : textRejects(err)

SpecClamp == Init /\ [][NextClamp]_vars

\* The reporter rendering the built-in report of one type for the enumerated
\* suites; the runner calls onBegin once.
NextFormat(reportType) ==
  \/ reporter = "none" /\ \E o \in FormatOptions(reportType) : constructor(o)
  \/ suite = None /\ reporter = "constructed"
       /\ \E s \in FormatSuites, t \in BeginTimes : onBegin(s, t)
  \/ \E status \in FormatStatuses, now \in LifecycleEndTimes, custom \in {NotConsulted} :
       onEnd(status, now, custom)
  \/ \E resp \in FormatResponses : fetchResolves(resp)
  \/ \E err \in TransportErrors : fetchRejects(err)
  \/ \E body \in ErrorBodies : textResolves(body)
  \/ \E err \in TransportErrors : textRejects(err)

NextSummary == NextFormat("summary")
SpecSummary == Init /\ [][NextSummary]_vars

NextDetailed == NextFormat("detailed")
SpecDetailed == Init /\ [][NextDetailed]_vars

\* The reporter rendering the detailed report of one record under each
\* template.
NextTemplate ==
  \/ reporter = "none" /\ \E o \in TemplateOptions : constructor(o)
  \/ suite = None /\ reporter = "constructed"
       /\ \E s \in TemplateSuites, t \in BeginTimes : onBegin(s, t)
  \/ \E status \in FormatStatuses, now \in LifecycleEndTimes, custom \in {NotConsulted} :
       onEnd(status, now, custom)
  \/ \E resp \in FormatResponses : fetchResolves(resp)
  \/ \E err \in TransportErrors : fetchRejects(err)
  \/ \E body \in ErrorBodies : textResolves(body)
  \/ \E err \in TransportErrors : textRejects(err)

SpecTemplate == Init /\ [][NextTemplate]_vars

\* The reporter rendering the detailed report of one record for each
\* outcome and duration, under the built-in template.
NextTime ==
  \/ reporter = "none" /\ \E o \in FormatOptions("detailed") : constructor(o)
  \/ suite = None /\ reporter = "constructed"
       /\ \E s \in TimeSuites, t \in BeginTimes : onBegin(s, t)
  \/ \E status \in FormatStatuses, now \in LifecycleEndTimes, custom \in {NotConsulted} :
       onEnd(status, now, custom)
  \/ \E resp \in FormatResponses : fetchResolves(resp)
  \/ \E err \in TransportErrors : fetchRejects(err)
  \/ \E body \in ErrorBodies : textResolves(body)
  \/ \E err \in TransportErrors : textRejects(err)

SpecTime == Init /\ [][NextTime]_vars

\* ------------------------------------------------------------- claims
\* An onEnd call has been made since the latest onBegin.
Called == call.status # ""

\* The send policy as documented: always, failure (every status but
\* passed), success (passed only), anything else as always.
PolicyPermits(status, sendOn) ==
  CASE sendOn = "always"  -> TRUE
    [] sendOn = "failure" -> status \in {"failed", "timedout", "interrupted"}
    [] sendOn = "success" -> status = "passed"
    [] OTHER -> TRUE

\* C1: shouldSend depends on the run status and sendOn alone: always sends
\* for every status, failure sends iff the status is not passed, success
\* sends iff it is passed, and any other value sends for every status; a
\* call that reaches the gate goes on to generate a report exactly when the
\* policy permits.
C1_SendGate ==
  /\ \A status \in RunStatuses, sendOn \in {"always", "failure", "success", "never"} :
       shouldSend(status, sendOn) = PolicyPermits(status, sendOn)
  /\ (Called /\ "shouldSend" \in calls) =>
       (("generateReport" \in calls) <=> PolicyPermits(call.status, options[1].sendOn))
C1_Witness ==
  /\ Called /\ options[1].sendOn = "failure" /\ call.status = "timedout"
  /\ "generateReport" \in calls

\* C2: every onEnd call issues exactly one POST when a suite was captured
\* and the policy permits the status, and none otherwise; a failed attempt
\* is not repeated.
C2_OnePostPerEligibleRun ==
  Called =>
    /\ Len(sent) = IF suite # None /\ PolicyPermits(call.status, options[1].sendOn)
                   THEN 1 ELSE 0
    /\ (Len(sent) = 0) = (message = None)

\* C3: whatever the delivery outcome, the promise of onEnd resolves and
\* never rejects, and it is pending until the attempt has settled; an error
\* response is logged with its status code and body, a transport exception
\* or a failed body read with the exception.
C3_DeliveryNeverRejects ==
  /\ (sent # << >>) => promise \in {"pending", "resolved"}
  /\ (sent # << >>) => ((promise = "resolved") <=> (settled # "none"))
  /\ (sent # << >>) => ((promise = "pending") <=> (pc # "idle"))
  /\ settled = "ok" => logged = << >>
  /\ settled = "not ok" =>
       /\ ~response.ok
       /\ \E body \in ErrorBodies :
            logged = << "TelegramReporter: Failed to send message. Status: "
                          \o ToString(response.status),
                        "TelegramReporter: Error: " \o body >>
  /\ settled \in {"fetch rejected", "text rejected"} =>
       \E err \in TransportErrors :
         logged = << "TelegramReporter: Error sending message to Telegram: " \o err >>
C3_Witness == settled = "text rejected" /\ promise = "resolved" /\ response.status = 500

\* C4: an onEnd call on a reporter whose onBegin was never called logs one
\* diagnostic, evaluates neither the gate nor a formatter, sends nothing,
\* and its promise resolves.
C4_NoSuiteShortCircuit ==
  (Called /\ suite = None) =>
    /\ logged = << "TelegramReporter: Suite data not available" >>
    /\ calls = {"onEnd"}
    /\ message = None /\ sent = << >>
    /\ pc = "idle" /\ promise = "resolved"
C4_Witness ==
  /\ Called /\ suite = None /\ promise = "resolved"
  /\ options[1].customFormatter # None /\ options[1].sendOn = "success"
  /\ call.status = "passed"

\* C7: the constructor throws iff botToken or chatId is empty or missing,
\* and no other operation lets an error reach the caller.
C7_OnlyConstructionThrows ==
  /\ reporter # "none" =>
       ((reporter = "threw") <=> (Falsy(options[1].botToken) \/ Falsy(options[1].chatId)))
  /\ promise # "rejected"

\* The text placed in the body of a request for a message, as documented:
\* the message, or its first maxLength - 50 characters and the marker.
ClampedAsDocumented(text, msg) ==
  IF Len(msg) <= maxLength THEN text = msg
  ELSE text = Take(msg, maxLength - 50) \o "..." \o NL \o NL \o "[Message truncated]"

\* C8: with a customFormatter configured, the text handed to delivery is the
\* formatter's return value, altered only by the length clamp, and no
\* built-in renderer and no title resolution is invoked.
C8_CustomFormatterOverrides ==
  (Called /\ options[1].customFormatter # None /\ "generateReport" \in calls) =>
    /\ "customFormatter" \in calls
    /\ calls \cap {"generateSimpleReport", "generateSummaryReport", "generateDetailedReport",
                   "getTitle", "title", "formatTest"} = {}
    /\ ~call.custom.throws =>
         /\ message = Some(call.custom.text)
         /\ Len(sent) = 1
         /\ ClampedAsDocumented(sent[1].body.text, call.custom.text)
C8_Witness ==
  /\ Called /\ options[1].customFormatter # None
  /\ options[1].reportType = "detailed" /\ options[1].title = Some(TitleFunction("All green", "Broken"))
  /\ message = Some("<b>custom</b> report")
  /\ sent # << >> /\ sent[1].body.text = "<b>custom</b> report"

\* C5: the text of the request body is never longer than 4096 characters; a
\* message of at most 4096 characters is sent unchanged, a longer one as its
\* first 4046 characters followed by the truncation marker.
C5_ClampedText ==
  sent # << >> =>
    /\ Len(sent[1].body.text) <= 4096
    /\ Len(message[1]) <= 4096 => sent[1].body.text = message[1]
    /\ Len(message[1]) > 4096 =>
         sent[1].body.text = Take(message[1], 4046) \o "..." \o NL \o NL \o "[Message truncated]"
C5_Witness ==
  /\ sent # << >> /\ Len(message[1]) = 4097
  /\ sent[1].body.text = Take(message[1], 4046) \o "..." \o NL \o NL \o "[Message truncated]"
  /\ sent[1].body.text # message[1]

\* C6 as stated: a message longer than the ceiling is sent as a text of
\* exactly 4096 characters, marker included.
C6_TruncatedToCeiling ==
  (sent # << >> /\ Len(message[1]) > 4096) => Len(sent[1].body.text) = 4096

\* C6, amended: a message longer than the ceiling is sent as a text of
\* exactly 4070 characters, the 4046 kept and the 24 of the marker.
C6_TruncatedTo4070 ==
  (sent # << >> /\ Len(message[1]) > 4096) =>
    /\ Len(sent[1].body.text) = 4070
    /\ Len(sent[1].body.text) = (4096 - 50) + Len("..." \o NL \o NL \o "[Message truncated]")
C6_Witness ==
  sent # << >> /\ Len(message[1]) = 5000 /\ Len(sent[1].body.text) = 4070

\* The lines of the report of the latest onEnd call.
ReportLines == split(message[1], NL)
\* The records of tests whose first attempt has the status, by position.
FirstAttemptIs(tests, status) ==
  { i \in 1..Len(tests) : tests[i].results # << >> /\ tests[i].results[1].status = status }
\* The lines that start with the prefix, by position.
LinesStarting(lines, prefix) == { k \in 1..Len(lines) : StartsWith(lines[k], prefix) }
Buckets == {"failed", "timedOut", "skipped", "passed"}

\* C9: in the summary report Total is the number of records, Passed, Failed,
\* Skipped and Timed Out are the numbers of records whose first attempt has
\* that outcome (a record with no attempt counts toward Total alone), and
\* the Timed Out line is there iff its count is positive.
C9_SummaryCounts ==
  (message # None /\ "generateSummaryReport" \in calls) =>
    LET lines == ReportLines
        tests == suite[1]
        n(status) == Cardinality(FirstAttemptIs(tests, status))
    IN  /\ Len(lines) = 11
        /\ lines[7] = Bullet \o " Total: " \o ToString(Len(tests))
        /\ lines[8] = Bullet \o " Passed: " \o ToString(n("passed"))
        /\ lines[9] = Bullet \o " Failed: " \o ToString(n("failed"))
        /\ lines[10] = Bullet \o " Skipped: " \o ToString(n("skipped"))
        /\ lines[11] = IF n("timedOut") > 0
                       THEN Bullet \o " Timed Out: " \o ToString(n("timedOut"))
                       ELSE ""
        /\ LinesStarting(lines, Bullet \o " Timed Out") = IF n("timedOut") > 0 THEN {11} ELSE {}
        /\ n("passed") + n("failed") + n("skipped") + n("timedOut") <= Len(tests)
C9_Witness ==
  /\ pc = "fetch" /\ "generateSummaryReport" \in calls
  /\ Len(suite[1]) = 3
  /\ suite[1][1].results = << >>
  /\ FirstAttemptIs(suite[1], "failed") = {2}
  /\ Len(suite[1][2].results) = 2
  /\ FirstAttemptIs(suite[1], "timedOut") = {3}
  /\ ReportLines[7] = Bullet \o " Total: 3"
  /\ ReportLines[8] = Bullet \o " Passed: 0"
  /\ ReportLines[11] = Bullet \o " Timed Out: 1"

\* The header of a section of the detailed report, up to its count.
SectionPrefix(status) ==
  CASE status = "failed"   -> CrossMark \o " FAILED ("
    [] status = "timedOut" -> Stopwatch \o " TIMED OUT ("
    [] status = "skipped"  -> SkipMark \o " SKIPPED ("
    [] status = "passed"   -> CheckMark \o " PASSED ("
SectionOrder == << "failed", "timedOut", "skipped", "passed" >>
\* The entry lines of the i-th record: the bulleted lines naming its test.
EntryLines(lines, i) ==
  { k \in LinesStarting(lines, "  " \o Bullet \o " ") :
      indexOfFrom(lines[k], "case " \o ToString(i) \o " ", 0) # -1 }

\* C10: in the detailed report the sections come in the order failed,
\* timed-out, skipped, passed; a section is there iff its bucket is
\* non-empty, and its header carries the bucket's count; every record whose
\* first attempt has one of the four outcomes is in exactly one section, in
\* input order within it; an empty bucket adds no line at all.  (A failed
\* entry of the enumerated suites takes five lines: a blank line, the test
\* line and three lines of error.)
C10_DetailedSections ==
  (message # None /\ "generateDetailedReport" \in calls) =>
    LET lines == ReportLines
        tests == suite[1]
        members == [status \in Buckets |-> FirstAttemptIs(tests, status)]
        n == [status \in Buckets |-> Cardinality(members[status])]
        header == [status \in Buckets |-> LinesStarting(lines, SectionPrefix(status))]
        headers == UNION { header[status] : status \in Buckets }
        entry == [i \in 1..Len(tests) |-> EntryLines(lines, i)]
    IN  /\ \A status \in Buckets :
             /\ (header[status] # {}) <=> (members[status] # {})
             /\ Cardinality(header[status]) <= 1
             /\ \A k \in header[status] :
                  lines[k] = SectionPrefix(status) \o ToString(n[status]) \o "):"
        /\ \A p, q \in 1..4 :
             p < q => \A k \in header[SectionOrder[p]], m \in header[SectionOrder[q]] : k < m
        /\ \A i \in 1..Len(tests) :
             IF \E status \in Buckets : i \in members[status]
             THEN LET status == CHOOSE st \in Buckets : i \in members[st]
                  IN  /\ Cardinality(entry[i]) = 1
                      /\ \A k \in entry[i] :
                           \E h \in header[status] :
                             h < k /\ ~ \E m \in headers : h < m /\ m < k
             ELSE entry[i] = {}
        /\ \A i, j \in 1..Len(tests) :
             (i < j /\ \E status \in Buckets : {i, j} \subseteq members[status]) =>
               \A k \in entry[i], m \in entry[j] : k < m
        /\ Len(lines) =
             10 + (IF n["timedOut"] > 0 THEN 1 ELSE 0) + 1
                + (IF n["failed"] > 0 THEN 1 + 5 * n["failed"] + 1 ELSE 0)
                + (IF n["timedOut"] > 0 THEN 1 + n["timedOut"] + 1 ELSE 0)
                + (IF n["skipped"] > 0 THEN 1 + n["skipped"] + 1 ELSE 0)
                + (IF n["passed"] > 0 THEN 1 + n["passed"] ELSE 0)
                + 1
C10_Witness ==
  /\ pc = "fetch" /\ "generateDetailedReport" \in calls
  /\ Len(suite[1]) = 3
  /\ FirstAttemptIs(suite[1], "passed") = {1, 3}
  /\ FirstAttemptIs(suite[1], "failed") = {2}
  /\ LinesStarting(ReportLines, SectionPrefix("failed")) = {12}
  /\ LinesStarting(ReportLines, SectionPrefix("passed")) = {19}
  /\ LinesStarting(ReportLines, SectionPrefix("skipped")) = {}
  /\ EntryLines(ReportLines, 1) = {20}
  /\ EntryLines(ReportLines, 3) = {21}

\* The text of the first entry of the detailed report: its first bulleted
\* line of two spaces of indent, without the bullet.
EntryPrefix == "  " \o Bullet \o " "
HasEntry ==
  message # None /\ "formatTest" \in calls /\ LinesStarting(ReportLines, EntryPrefix) # {}
FirstEntry ==
  LET ks == LinesStarting(ReportLines, EntryPrefix)
      first == CHOOSE k \in ks : \A m \in ks : k <= m
  IN  Drop(ReportLines[first], Len(EntryPrefix))

\* The documented substitution: each occurrence of a token in the template,
\* left to right, gives way to the token's value, and the text around the
\* tokens stays as it is.
Tokens == << "{GROUP}", "{TEST}", "{BROWSER}", "{FILENAME}", "{TIME}" >>
RECURSIVE Substituted(_, _)
Substituted(template, value) ==
  LET at == [i \in 1..Len(Tokens) |-> indexOfFrom(template, Tokens[i], 0)]
      hits == { i \in 1..Len(Tokens) : at[i] # -1 }
  IN  IF hits = {} THEN template
      ELSE LET t == CHOOSE i \in hits : \A j \in hits : at[i] <= at[j]
           IN  Take(template, at[t]) \o value[t]
                 \o Substituted(Drop(template, at[t] + Len(Tokens[t])), value)
\* The documented values of a record whose title path is the label of the
\* project, the file, the describe blocks and the test.
DocumentedValues(test, time) ==
  LET path == test.titlePath
      parts == split(test.file, "/")
  IN  << join(SubSeq(path, 3, Len(path) - 1), " " \o Chevron \o " "),
         path[Len(path)],
         IF test.project = None THEN "" ELSE test.project[1],
         parts[Len(parts)],
         time >>
\* The records whose values hold neither a dollar sign nor a brace, under
\* describe blocks titled otherwise than the project and the file.
PlainRecord(test) ==
  LET v == DocumentedValues(test, "")
      path == test.titlePath
  IN  /\ \A i \in 1..4 : indexOfFrom(v[i], "$", 0) = -1 /\ indexOfFrom(v[i], "{", 0) = -1
      /\ \A k \in 3..(Len(path) - 1) : path[k] \notin {v[3], v[4]}

\* C11: for every record and every template the per-test line is the
\* template with every occurrence of {GROUP}, {TEST}, {BROWSER}, {FILENAME}
\* and {TIME} replaced by its value (TEST the last segment of the title
\* path, BROWSER the project's name or the empty string, FILENAME the last
\* component of the file's path, GROUP the segments between the file's
\* segment and the last one, joined by the separator), and the rest of the
\* template is untouched.
C11_TemplateSubstituted ==
  HasEntry =>
    FirstEntry = Substituted(options[1].testFormat, DocumentedValues(suite[1][1], "1.23s"))
\* The same for the plain records, where the line is the documented one.
C11_PlainRecordsSubstituted ==
  (HasEntry /\ PlainRecord(suite[1][1])) =>
    FirstEntry = Substituted(options[1].testFormat, DocumentedValues(suite[1][1], "1.23s"))
C11_PlainWitness ==
  /\ HasEntry /\ PlainRecord(suite[1][1])
  /\ options[1].testFormat = "[{BROWSER}] {FILENAME} {GROUP}: {TEST} {TIME} {TEST}"
  /\ FirstEntry = "[chromium] login.spec.ts Auth " \o Chevron
                    \o " Admin: logs in 1.23s logs in"

\* The TIME of the first entry under the built-in template: the text
\* between the parentheses that end the line.
EntryTime ==
  LET open == "Auth " \o Chevron \o " case 1 ("
  IN  SubSeq(FirstEntry, Len(open) + 1, Len(FirstEntry) - 1)
\* text is d milliseconds in seconds with two decimals and an s: the
\* hundredths h it shows are within half a hundredth of d / 1000.
IsSecondsOf(text, d) ==
  \E h \in {d \div 10, (d \div 10) + 1} :
    /\ 10 * h - d <= 5 /\ d - 10 * h <= 5
    /\ text = ToString(h \div 100) \o "." \o ToString((h \div 10) % 10)
                \o ToString(h % 10) \o "s"
\* The documented TIME of a record.
DocumentedTime(text, test) ==
  LET first == test.results[1]
  IN  IF first.status = "skipped" THEN text = "N/A"
      ELSE IF first.duration = None THEN text = "N/A"
      ELSE IsSecondsOf(text, first.duration[1])

\* C12: in the detailed report the TIME of a failed, timed-out or passed
\* entry whose first attempt has a duration d >= 0 is d / 1000 with two
\* decimals and an s, and is N/A only when the duration is absent; the TIME
\* of a skipped entry is N/A whatever its duration.
C12_TimeOfDuration ==
  HasEntry => DocumentedTime(EntryTime, suite[1][1])
\* The same for the records whose first attempt has no duration of zero.
C12_TimeOfNonZeroDuration ==
  (HasEntry /\ suite[1][1].results[1].duration # Some(0)) =>
    DocumentedTime(EntryTime, suite[1][1])
C12_NonZeroWitness ==
  /\ HasEntry
  /\ suite[1][1].results[1] = Attempt("timedOut", Some(1005), None)
  /\ EntryTime = "1.00s"

====
